---- MODULE Spec2Model ----
(***************************************************************************)
(* A model of pyramid's view configuration (pyramid/config/views.py:       *)
(* MultiView, add_view and its register_view, the view derivers, the cache *)
(* busters of StaticURLInfo) and of its static assets (pyramid/static.py:  *)
(* static_view, ManifestCacheBuster).                                      *)
(*                                                                         *)
(* Specifications sharing the module:                                      *)
(*   SpecMV        a MultiView built by MultiView.add                      *)
(*   SpecDispatch  a MultiView and the requests it dispatches              *)
(*   SpecViews     the adapters of one triad, driven by register_view      *)
(*   SpecStatic    a static_view serving requests while the disk changes   *)
(*   SpecManifest  a ManifestCacheBuster while its manifest file changes   *)
(*   SpecBust      the cache busters of StaticURLInfo and the URLs busted  *)
(*   SpecAddView   add_view calls and the classifiers they register under  *)
(*   SpecDerivers  the view derivers, their sorted order and their use     *)
(***************************************************************************)
EXTENDS Integers, Sequences, FiniteSets, TLC

VARIABLES
    mv,        \* SpecMV: the MultiView
    mv_n,      \* SpecMV: number of MultiView.add calls made so far
    disp,      \* SpecMV: what the last get_views / match / __call__ did
    reg,       \* SpecViews: the adapters registered for the triad
    reg_n,     \* SpecViews: number of register_view calls made so far
    last,      \* SpecViews: what the last register_view call received and found
    sv,        \* SpecStatic: the static_view's constructor arguments
    sizes,     \* SpecStatic: getsize of every path
    disk,      \* SpecStatic: the paths that exist
    filemap,   \* SpecStatic: static_view.filemap
    resp,      \* SpecStatic: what the last static_view.__call__ did
    mcb,       \* SpecManifest: the ManifestCacheBuster
    mfile,     \* SpecManifest: the manifest file on disk
    mres,      \* SpecManifest: what the last operation on the buster or the file did
    cache_busters,  \* SpecBust: StaticURLInfo.cache_busters
    cb_n,      \* SpecBust: number of add_cache_buster calls made so far
    bust,      \* SpecBust: what the last _bust_asset_path call did
    adapters,  \* SpecAddView: the adapters of every (classifier, context) triad
    av_n,      \* SpecAddView: number of add_view calls made so far
    av,        \* SpecAddView: what the last add_view call received and did
    derivers,  \* SpecDerivers: the IViewDerivers utility, a TopologicalSorter
    dcfg,      \* SpecDerivers: the add_view_deriver calls made so far
    dv         \* SpecDerivers: what the last sorted() / _apply_view_derivers did

mvVars == <<mv, mv_n, disp>>
regVars == <<reg, reg_n, last>>
staticVars == <<sv, sizes, disk, filemap, resp>>
manifestVars == <<mcb, mfile, mres>>
coreVars == <<mvVars, regVars, staticVars>>
bustVars == <<cache_busters, cb_n, bust>>
addViewVars == <<adapters, av_n, av>>
deriverVars == <<derivers, dcfg, dv>>
extVars == <<manifestVars, bustVars, addViewVars, deriverVars>>
vars == <<mv, mv_n, disp, reg, reg_n, last, sv, sizes, disk, filemap, resp,
          mcb, mfile, mres, cache_busters, cb_n, bust, adapters, av_n, av,
          derivers, dcfg, dv>>

----------------------------------------------------------------------------
(* Bounds *)

MaxAdds == 3          \* MultiView.add calls in SpecMV
MaxCands == 2         \* MultiView.add calls in SpecDispatch
MaxRegs == 3          \* register_view calls in SpecViews
MaxQ == 2             \* highest quality value of a request's Accept header
MaxSize == 2          \* largest file size
MaxMtime == 2         \* latest modification time of the manifest file
MaxBusters == 3       \* add_cache_buster calls in SpecBust
MaxViews == 2         \* add_view calls in SpecAddView
MaxDerivers == 2      \* add_view_deriver calls, beside the default ones, in SpecDerivers

----------------------------------------------------------------------------
(* Values *)

None == "None"
MAX_ORDER == 1073741824
DEFAULT_PHASH == "d41d8cd98f00b204e9800998ecf8427e"

MediaTypes == {"text/html", "application/json"}
Accepts == {None} \cup MediaTypes
Orders == {1, 2}
Phashes == {"h1", "h2"}

Min(S) == CHOOSE x \in S : \A y \in S : x <= y

\* the permutations of a finite set, as sequences
Perms(S) ==
    {s \in [1..Cardinality(S) -> S] : \A x \in S : \E i \in DOMAIN s : s[i] = x}

\* list.sort(key=...) / sorted(key=...): a stable sort of a sequence of records
\* by their field k, ascending
RECURSIVE SortByKey(_)
SortByKey(s) ==
    IF s = <<>> THEN <<>>
    ELSE LET t == SortByKey(SubSeq(s, 1, Len(s) - 1))
             e == s[Len(s)]
             idx == Cardinality({i \in DOMAIN t : t[i].k <= e.k})
         IN SubSeq(t, 1, idx) \o <<e>> \o SubSeq(t, idx + 1, Len(t))

SeqToSet(s) == {s[i] : i \in DOMAIN s}

\* the elements of s that are in S, in the order of s
RECURSIVE Filter(_, _)
Filter(s, S) ==
    IF s = <<>> THEN <<>>
    ELSE (IF s[1] \in S THEN <<s[1]>> ELSE <<>>) \o Filter(Tail(s), S)

RECURSIVE Flatten(_)
Flatten(ss) == IF ss = <<>> THEN <<>> ELSE ss[1] \o Flatten(Tail(ss))

IsSortedByOrder(s) ==
    \A i, j \in DOMAIN s : i < j => s[i].order <= s[j].order

----------------------------------------------------------------------------
(* MultiView *)

\* MultiView.__init__
NewMultiView ==
    [media_views |-> [a \in MediaTypes |-> <<>>], views |-> <<>>, accepts |-> <<>>]

\* views.sort(key=operator.itemgetter(0))
SortViews(s) ==
    LET keyed == [i \in DOMAIN s |-> [k |-> s[i].order, v |-> s[i]]]
        sorted == SortByKey(keyed)
    IN [i \in DOMAIN sorted |-> sorted[i].v]

\* sort_accept_offers(offers, order): the offers sorted by their position in
\* order, an offer that order does not name after those it names. The offers
\* are a Python set; iter is the order in which that set is iterated.
sort_accept_offers(offers, order, iter) ==
    LET rank(a) == IF \E i \in DOMAIN order : order[i] = a
                   THEN Min({i \in DOMAIN order : order[i] = a})
                   ELSE Len(order) + Cardinality(offers) + 1
        listed == Filter(iter, offers)
        keyed == [i \in DOMAIN listed |-> [k |-> rank(listed[i]), v |-> listed[i]]]
        sorted == SortByKey(keyed)
    IN [i \in DOMAIN sorted |-> sorted[i].v]

\* the index of the first entry of s with this phash, 0 when there is none
FirstWithPhash(s, phash) ==
    LET hit == {i \in DOMAIN s : s[i].phash = phash}
    IN IF hit = {} THEN 0 ELSE Min(hit)

\* MultiView.add(view, order, phash, accept, accept_order); accept_order is
\* the sorted sequence of the IAcceptOrder utility, <<>> when it is None
Add(m, view, order, phash, accept, accept_order, iter) ==
    LET e == [order |-> order, view |-> view, phash |-> phash]
        i == FirstWithPhash(m.views, phash)
    IN IF phash # None /\ i # 0
       THEN [m EXCEPT !.views[i] = e]
       ELSE IF accept = None
       THEN [m EXCEPT !.views = SortViews(Append(@, e))]
       ELSE LET subset == m.media_views[accept]
                j == FirstWithPhash(subset, phash)
            IN IF j # 0
               THEN [m EXCEPT !.media_views[accept][j] = e]
               ELSE [m EXCEPT
                       !.media_views[accept] = SortViews(Append(@, e)),
                       !.accepts = sort_accept_offers(
                           SeqToSet(@) \cup {accept}, accept_order, iter)]

\* request.accept.acceptable_offers(offers) (webob): the offers the header
\* accepts, by descending quality value, offers of equal quality in the
\* order of offers
acceptable_offers(request, offers) ==
    LET ok == Filter(offers, {a \in MediaTypes : request.q[a] > 0})
        keyed == [i \in DOMAIN ok |-> [k |-> MaxQ - request.q[ok[i]], v |-> ok[i]]]
        sorted == SortByKey(keyed)
    IN [i \in DOMAIN sorted |-> sorted[i].v]

\* get_views with a fault: no negotiation, the views of every media type
get_views_unnegotiated(m, request) ==
    IF m.accepts # <<>> /\ request.has_accept
    THEN Flatten([i \in DOMAIN m.accepts |-> m.media_views[m.accepts[i]]]) \o m.views
    ELSE m.views

\* MultiView.get_views(request)
get_views(m, request) ==
    IF m.accepts # <<>> /\ request.has_accept
    THEN LET offers == acceptable_offers(request, m.accepts)
         IN Flatten([i \in DOMAIN offers |-> m.media_views[offers[i]]]) \o m.views
    ELSE m.views

\* match with a fault: a view without __predicated__ is skipped
RECURSIVE match_predicated_only(_, _)
match_predicated_only(views, pred) ==
    IF views = <<>> THEN [outcome |-> "PredicateMismatch", view |-> 0]
    ELSE LET view == views[1].view
         IN IF pred[view] = "true" THEN [outcome |-> "view", view |-> view]
            ELSE match_predicated_only(Tail(views), pred)

\* the loop of MultiView.match over get_views(request); pred[v] is "absent"
\* when view v has no __predicated__, else what v.__predicated__ returns
RECURSIVE match(_, _)
match(views, pred) ==
    IF views = <<>> THEN [outcome |-> "PredicateMismatch", view |-> 0]
    ELSE LET view == views[1].view
         IN IF pred[view] = "absent" THEN [outcome |-> "view", view |-> view]
            ELSE IF pred[view] = "true" THEN [outcome |-> "view", view |-> view]
            ELSE match(Tail(views), pred)

\* call with a fault: every exception of a candidate is swallowed
RECURSIVE call_swallowing(_, _, _)
call_swallowing(views, beh, invoked) ==
    IF views = <<>>
    THEN [outcome |-> "PredicateMismatch", view |-> 0, invoked |-> invoked]
    ELSE LET view == views[1].view
         IN IF beh[view] \in {"mismatch", "error"}
            THEN call_swallowing(Tail(views), beh, Append(invoked, view))
            ELSE [outcome |-> beh[view], view |-> view,
                  invoked |-> Append(invoked, view)]

\* the loop of MultiView.__call__ over get_views(request); beh[v] is what
\* calling view v does: it returns a "response", raises PredicateMismatch
\* ("mismatch") or raises another exception ("error")
RECURSIVE call(_, _, _)
call(views, beh, invoked) ==
    IF views = <<>>
    THEN [outcome |-> "PredicateMismatch", view |-> 0, invoked |-> invoked]
    ELSE LET view == views[1].view
         IN IF beh[view] = "mismatch"
            THEN call(Tail(views), beh, Append(invoked, view))
            ELSE [outcome |-> beh[view], view |-> view,
                  invoked |-> Append(invoked, view)]

----------------------------------------------------------------------------
(* SpecMV and SpecDispatch: a MultiView and the requests it dispatches *)

AcceptOrders == {<<>>, <<"text/html", "application/json">>}

Requests ==
    {[has_accept |-> FALSE, q |-> [a \in MediaTypes |-> 0]]}
    \cup {[has_accept |-> TRUE, q |-> q] : q \in [MediaTypes -> 0..MaxQ]}

Idle ==
    [op |-> "none", request |-> [has_accept |-> FALSE, q |-> [a \in MediaTypes |-> 0]],
     cands |-> <<>>, beh |-> <<>>, outcome |-> "none", view |-> 0, invoked |-> <<>>]

AddStep(bound) ==
    /\ mv_n < bound
    /\ \E order \in Orders, phash \in Phashes \cup {None}, accept \in Accepts,
          accept_order \in AcceptOrders, iter \in Perms(MediaTypes) :
          mv' = Add(mv, mv_n + 1, order, phash, accept, accept_order, iter)
    /\ mv_n' = mv_n + 1
    /\ disp' = Idle
    /\ UNCHANGED <<regVars, staticVars, extVars>>

\* One request is dispatched at a time: disp keeps what the dispatch did until
\* the MultiView changes.
GetViewsStep ==
    /\ disp.op = "none"
    /\ \E request \in Requests :
          disp' = [Idle EXCEPT !.op = "get_views", !.request = request,
                               !.cands = get_views(mv, request)]
    /\ UNCHANGED <<mv, mv_n, regVars, staticVars, extVars>>

MatchStep ==
    /\ disp.op = "none"
    /\ \E views \in {get_views(mv, request) : request \in Requests},
          pred \in [1..mv_n -> {"absent", "true", "false"}] :
          LET r == match(views, pred)
          IN disp' = [Idle EXCEPT !.op = "match", !.cands = views, !.beh = pred,
                                  !.outcome = r.outcome, !.view = r.view]
    /\ UNCHANGED <<mv, mv_n, regVars, staticVars, extVars>>

CallStep ==
    /\ disp.op = "none"
    /\ \E views \in {get_views(mv, request) : request \in Requests},
          beh \in [1..mv_n -> {"response", "mismatch", "error"}] :
          LET r == call(views, beh, <<>>)
          IN disp' = [Idle EXCEPT !.op = "call", !.cands = views, !.beh = beh,
                                  !.outcome = r.outcome, !.view = r.view,
                                  !.invoked = r.invoked]
    /\ UNCHANGED <<mv, mv_n, regVars, staticVars, extVars>>

MVAdd == AddStep(MaxAdds)

DispatchAdd == AddStep(MaxCands)

NextMV == MVAdd

NextDispatch == DispatchAdd \/ GetViewsStep \/ MatchStep \/ CallStep

----------------------------------------------------------------------------
(* add_view's register_view and the adapter registry of one triad *)

\* what attr_wrapped_view returns for a derived view with this accept, order
\* and phash: the view itself, without __accept__, __order__ and __phash__,
\* when all three are the defaults, else a wrapper that carries them.
\* permissive says whether the derived view has __call_permissive__.
attr_wrapped_view(id, order, phash, accept, permissive) ==
    IF accept = None /\ order = MAX_ORDER /\ phash = DEFAULT_PHASH
    THEN [id |-> id, wrapped |-> FALSE, order |-> 0, phash |-> None,
          accept |-> None, permissive |-> permissive]
    ELSE [id |-> id, wrapped |-> TRUE, order |-> order, phash |-> phash,
          accept |-> accept, permissive |-> permissive]

\* getattr(view, '__phash__', DEFAULT_PHASH) and its like; views is <<>> for
\* None, <<v>> for a view; a MultiView has none of the attributes
old_phash_of(views, is_multiview) ==
    IF views # <<>> /\ ~is_multiview /\ views[1].wrapped
    THEN views[1].phash ELSE DEFAULT_PHASH

\* old_order_of with a fault: the old view's __order__ is ignored
old_order_of_ignored(view) == MAX_ORDER

old_order_of(view) == IF view.wrapped THEN view.order ELSE MAX_ORDER

old_accept_of(view) == IF view.wrapped THEN view.accept ELSE None

NoAdapters == [IView |-> <<>>, ISecuredView |-> <<>>, IMultiView |-> <<>>]

\* the loop over (IView, ISecuredView, IMultiView) with
\* registry.adapters.registered: the first registration found, and its type
find_view(r) ==
    IF r.IView # <<>> THEN [type |-> "IView", found |-> r.IView]
    ELSE IF r.ISecuredView # <<>> THEN [type |-> "ISecuredView", found |-> r.ISecuredView]
    ELSE IF r.IMultiView # <<>> THEN [type |-> "IMultiView", found |-> r.IMultiView]
    ELSE [type |-> "IMultiView", found |-> <<>>]

\* the interface a single view is registered under
view_iface(derived_view) ==
    IF derived_view.permissive THEN "ISecuredView" ELSE "IView"

\* register_view(classifier, request_iface, derived_view) on the adapters r
\* of the triad; order, phash and accept are those of the add_view call
register_view(r, derived_view, order, phash, accept, accept_order, iter) ==
    LET old == find_view(r)
        old_view == old.found
        is_multiview == old_view # <<>> /\ old.type = "IMultiView"
        old_phash == old_phash_of(old_view, is_multiview)
        want_multiview == is_multiview \/ (old_view # <<>> /\ old_phash # phash)
    IN IF ~want_multiview
       THEN IF view_iface(derived_view) = "ISecuredView"
            THEN [r EXCEPT !.ISecuredView = <<derived_view>>]
            ELSE [r EXCEPT !.IView = <<derived_view>>]
       ELSE LET multiview ==
                    IF is_multiview THEN old_view[1]
                    ELSE Add(NewMultiView, old_view[1], old_order_of(old_view[1]),
                             old_phash, old_accept_of(old_view[1]), <<>>, iter)
                added == Add(multiview, derived_view, order, phash, accept,
                             accept_order, iter)
            IN [IView |-> <<>>, ISecuredView |-> <<>>, IMultiView |-> <<added>>]

ViewOrders == {1, MAX_ORDER}
ViewPhashes == {DEFAULT_PHASH} \cup Phashes
ViewAccepts == {None, "text/html"}

NoCall ==
    [op |-> "none", before |-> NoAdapters,
     view |-> attr_wrapped_view(0, MAX_ORDER, DEFAULT_PHASH, None, FALSE),
     order |-> MAX_ORDER, phash |-> DEFAULT_PHASH, accept |-> None]

RegisterView ==
    /\ reg_n < MaxRegs
    /\ \E order \in ViewOrders, phash \in ViewPhashes, accept \in ViewAccepts,
          permissive \in BOOLEAN, accept_order \in AcceptOrders,
          iter \in Perms(MediaTypes) :
          LET derived_view ==
                  attr_wrapped_view(reg_n + 1, order, phash, accept, permissive)
          IN /\ reg' = register_view(reg, derived_view, order, phash, accept,
                                     accept_order, iter)
             /\ last' = [op |-> "register_view", before |-> reg,
                         view |-> derived_view, order |-> order,
                         phash |-> phash, accept |-> accept]
    /\ reg_n' = reg_n + 1
    /\ UNCHANGED <<mvVars, staticVars, extVars>>

NextViews == RegisterView

----------------------------------------------------------------------------
(* static_view *)

Encodings == {"gzip", "br"}

\* mimetypes.encodings_map, restricted to Encodings, in its own order
encodings_map == <<[ext |-> ".gz", encoding |-> "gzip"], [ext |-> ".br", encoding |-> "br"]>>

\* _compile_content_encodings(encodings): the (encoding, extension) pairs of
\* the encodings asked for, in the order of encodings_map
_compile_content_encodings(encodings) ==
    Filter(encodings_map, {m \in SeqToSet(encodings_map) : m.encoding \in encodings})

\* A path is a resource name (a sequence of path elements under the docroot)
\* and the extension appended to it ("" for the resource itself).
ResourceA == <<"a">>
DirD == <<"d">>
Index == "index.html"
Paths == {[name |-> ResourceA, ext |-> ext] : ext \in {"", ".gz", ".br"}}

\* isdir(resource_path)
isdir(name) == name = DirD

\* the path elements of the model that contain '/' or os.sep
SlashElements == {"b/c"}

\* _secure_path with a fault: only '..' is refused
_secure_path_dotdot_only(path_tuple) ==
    IF ".." \in SeqToSet(path_tuple) THEN <<>> ELSE <<path_tuple>>

\* _secure_path(path_tuple): the joined path, <<>> standing for None
_secure_path(path_tuple) ==
    IF SeqToSet(path_tuple) \cap {"..", ".", ""} # {} THEN <<>>
    ELSE IF \E i \in DOMAIN path_tuple : path_tuple[i] \in SlashElements THEN <<>>
    ELSE <<path_tuple>>

\* static_view.get_resource_name(request) for a filesystem docroot
get_resource_name(request) ==
    LET path == _secure_path(request.path_tuple)
    IN IF path = <<>> THEN [raised |-> "HTTPNotFound", name |-> <<>>]
       ELSE IF isdir(path[1])
       THEN IF ~request.slash
            THEN [raised |-> "HTTPMovedPermanently", name |-> <<>>]
            ELSE [raised |-> "", name |-> Append(path[1], Index)]
       ELSE [raised |-> "", name |-> path[1]]

\* static_view.find_resource_path(name), <<>> standing for None
find_resource_path(d, path) == IF path \in d THEN <<path>> ELSE <<>>

\* SortBySize with a fault: the list is left in the order it was found
SortBySize_unsorted(result, sz) == result

\* result.sort(key=lambda x: getsize(x[0]))
SortBySize(result, sz) ==
    LET keyed == [i \in DOMAIN result |-> [k |-> sz[result[i].path], v |-> result[i]]]
        sorted == SortByKey(keyed)
    IN [i \in DOMAIN sorted |-> sorted[i].v]

\* the scan of static_view.get_possible_files, after a miss in filemap
scan_files(view, d, sz, resource_name) ==
    LET identity == find_resource_path(d, [name |-> resource_name, ext |-> ""])
        first == [i \in DOMAIN identity |-> [path |-> identity[i], encoding |-> None]]
        ce == view.content_encodings
        found == {i \in DOMAIN ce :
                    find_resource_path(d, [name |-> resource_name, ext |-> ce[i].ext]) # <<>>}
        encoded == [i \in DOMAIN ce |->
                      IF i \in found
                      THEN <<[path |-> [name |-> resource_name, ext |-> ce[i].ext],
                              encoding |-> ce[i].encoding]>>
                      ELSE <<>>]
    IN SortBySize(first \o Flatten(encoded), sz)

\* get_possible_files with a fault: filemap is never consulted, every call
\* scans the disk again
get_possible_files_rescanning(view, fm, d, sz, resource_name) ==
    LET result == scan_files(view, d, sz, resource_name)
    IN [result |-> result,
        filemap |-> IF ~view.reload
                    THEN [fm EXCEPT ![resource_name] = <<result>>] ELSE fm]

\* static_view.get_possible_files(resource_name): the result and the filemap
\* it leaves; fm[name] is <<>> when name is no key of filemap
get_possible_files(view, fm, d, sz, resource_name) ==
    IF fm[resource_name] # <<>>
    THEN [result |-> fm[resource_name][1], filemap |-> fm]
    ELSE LET result == scan_files(view, d, sz, resource_name)
         IN [result |-> result,
             filemap |-> IF ~view.reload
                         THEN [fm EXCEPT ![resource_name] = <<result>>] ELSE fm]

\* the first file of a list with one of these encodings, (None, None) when
\* there is none
FirstOf(files, encodings) ==
    LET ok == {i \in DOMAIN files : files[i].encoding \in encodings}
    IN IF ok = {} THEN [path |-> <<>>, encoding |-> None]
       ELSE [path |-> <<files[Min(ok)].path>>, encoding |-> files[Min(ok)].encoding]

\* find_best_match with a fault: without accepted encodings every encoding
\* is taken to be acceptable
find_best_match_any(request, files) ==
    IF ~request.accept_encoding.given
    THEN FirstOf(files, Encodings \cup {None})
    ELSE LET offered == {files[i].encoding : i \in DOMAIN files} \ {None}
             acceptable_encodings ==
                 (offered \cap request.accept_encoding.ok) \cup {None}
         IN FirstOf(files, acceptable_encodings)

\* static_view.find_best_match(request, files); accept_encoding.given is the
\* truth value of request.accept_encoding and accept_encoding.ok the
\* encodings its acceptable_offers accepts
find_best_match(request, files) ==
    IF ~request.accept_encoding.given
    THEN [path |-> FirstOf(files, {None}).path, encoding |-> None]
    ELSE LET offered == {files[i].encoding : i \in DOMAIN files} \ {None}
             acceptable_encodings ==
                 (offered \cap request.accept_encoding.ok) \cup {None}
         IN FirstOf(files, acceptable_encodings)

\* _add_vary(response, option)
_add_vary(vary, option) == IF option \in vary THEN vary ELSE vary \cup {option}

NoResponse ==
    [kind |-> "none", request |-> [path_tuple |-> <<>>, slash |-> FALSE,
                                   accept_encoding |-> [given |-> FALSE, ok |-> {}]],
     resource |-> <<>>, files |-> <<>>, path |-> <<>>, content_encoding |-> None,
     vary |-> {}]

\* static_view.__call__(context, request): the response (or the exception
\* raised) and the filemap it leaves. FileResponse opens the file, which
\* fails when a file of a cached list is no longer there.
static_call(view, fm, d, sz, request) ==
    LET rn == get_resource_name(request)
        got == get_possible_files(view, fm, d, sz, rn.name)
        files == got.result
        best == find_best_match(request, files)
        looked == [NoResponse EXCEPT !.request = request, !.resource = <<rn.name>>,
                                     !.files = files, !.path = best.path,
                                     !.content_encoding = best.encoding]
    IN IF rn.raised # ""
       THEN [response |-> [NoResponse EXCEPT !.kind = rn.raised, !.request = request],
             filemap |-> fm]
       ELSE IF best.path = <<>>
       THEN [response |-> [looked EXCEPT !.kind = "HTTPNotFound"],
             filemap |-> got.filemap]
       ELSE IF best.path[1] \notin d
       THEN [response |-> [looked EXCEPT !.kind = "OSError"],
             filemap |-> got.filemap]
       ELSE [response |->
                [looked EXCEPT !.kind = "response",
                               !.vary = IF Len(files) > 1
                                        THEN _add_vary(@, "Accept-Encoding") ELSE @],
             filemap |-> got.filemap]

\* the path tuples of the requests, and the names filemap may get as keys
PathTuples == {ResourceA, DirD, <<"..", "a">>, <<"b/c">>, <<".", "a">>, <<"a", "">>}
ResourceNames == PathTuples \cup {Append(DirD, Index)}
AcceptEncodings ==
    {[given |-> FALSE, ok |-> {}]} \cup {[given |-> TRUE, ok |-> ok] : ok \in SUBSET Encodings}
StaticRequests ==
    {[path_tuple |-> p, slash |-> sl, accept_encoding |-> ae] :
        p \in PathTuples, sl \in BOOLEAN, ae \in AcceptEncodings}

\* One request is served at a time: resp keeps what the call did until the
\* disk changes.
StaticCall ==
    /\ resp.kind = "none"
    /\ \E request \in StaticRequests :
          LET r == static_call(sv, filemap, disk, sizes, request)
          IN resp' = r.response /\ filemap' = r.filemap
    /\ UNCHANGED <<sv, sizes, disk, mvVars, regVars, extVars>>

\* a file appears on disk or is removed from it
AddFile ==
    /\ \E p \in Paths \ disk : disk' = disk \cup {p}
    /\ resp' = NoResponse
    /\ UNCHANGED <<sv, sizes, filemap, mvVars, regVars, extVars>>

RemoveFile ==
    /\ \E p \in disk : disk' = disk \ {p}
    /\ resp' = NoResponse
    /\ UNCHANGED <<sv, sizes, filemap, mvVars, regVars, extVars>>

NextStatic == StaticCall \/ AddFile \/ RemoveFile

----------------------------------------------------------------------------
(* ManifestCacheBuster *)

\* The asset paths given to a cache buster and the paths a manifest maps
\* them to. A dict over asset paths is a function on Subpaths whose value is
\* <<>> for a path that is no key and <<v>> for a key with value v.
Subpaths == {"css/main.css", "img/bg.png", "js/app.js"}
BustedPaths == {"css/main-1.css", "css/main-2.css", "img/bg-1.png"}
EmptyDict == [k \in Subpaths |-> <<>>]

\* dict.get(key, default)
dict_get(m, key, default) == IF m[key] # <<>> THEN m[key][1] ELSE default

\* The content of a manifest file: the members of a JSON object, in the
\* order they are written.
ManifestContents ==
    {<<>>,
     <<[key |-> "css/main.css", value |-> "css/main-1.css"]>>,
     <<[key |-> "css/main.css", value |-> "css/main-2.css"],
       [key |-> "img/bg.png", value |-> "img/bg-1.png"]>>,
     <<[key |-> "css/main.css", value |-> "css/main-2.css"],
       [key |-> "css/main.css", value |-> "css/main-1.css"]>>}

\* ManifestCacheBuster.parse_manifest(content): json.loads of an object, the
\* last member of a repeated key winning
RECURSIVE parse_manifest(_)
parse_manifest(content) ==
    IF content = <<>> THEN EmptyDict
    ELSE LET e == content[Len(content)]
         IN [parse_manifest(SubSeq(content, 1, Len(content) - 1))
                EXCEPT ![e.key] = <<e.value>>]

\* ManifestCacheBuster.get_manifest(): open() raises when the file is
\* missing; file is <<>> or <<[content, mtime]>>
get_manifest(file) ==
    IF file = <<>> THEN [raised |-> "FileNotFoundError", value |-> EmptyDict]
    ELSE [raised |-> "", value |-> parse_manifest(file[1].content)]

\* no ManifestCacheBuster yet; _mtime and _manifest are <<>> while unset
NoBuster == [made |-> "no", reload |-> FALSE, _mtime |-> <<>>, _manifest |-> <<>>]

\* ManifestCacheBuster.__init__(manifest_spec, reload)
manifest_init(file, reload) ==
    IF reload
    THEN [raised |-> "", buster |-> [NoBuster EXCEPT !.made = "yes", !.reload = TRUE]]
    ELSE LET got == get_manifest(file)
         IN IF got.raised # ""
            THEN [raised |-> got.raised, buster |-> [NoBuster EXCEPT !.made = "failed"]]
            ELSE [raised |-> "",
                  buster |-> [NoBuster EXCEPT !.made = "yes", !._manifest = <<got.value>>]]

\* the ManifestCacheBuster.manifest property: the mapping returned and the
\* buster it leaves
manifest(b, file) ==
    IF b.reload
    THEN IF file = <<>> THEN [buster |-> b, value |-> EmptyDict]
         ELSE LET mtime == file[1].mtime
              IN IF b._mtime = <<>> \/ mtime > b._mtime[1]
                 THEN [buster |-> [b EXCEPT !._manifest = <<get_manifest(file).value>>,
                                            !._mtime = <<mtime>>],
                       value |-> get_manifest(file).value]
                 ELSE [buster |-> b, value |-> b._manifest[1]]
    ELSE [buster |-> b, value |-> b._manifest[1]]

\* the keyword arguments of a URL generation, as the value of _query
Kws == {[_query |-> None], [_query |-> "v=1"]}

\* __call__ with a fault: a subpath that is no key comes back as None
manifest_call_strict(b, file, subpath, kw) ==
    LET m == manifest(b, file)
    IN [buster |-> m.buster, manifest |-> m.value,
        subpath |-> dict_get(m.value, subpath, None), kw |-> kw]

\* ManifestCacheBuster.__call__(request, subpath, kw)
manifest_call(b, file, subpath, kw) ==
    LET m == manifest(b, file)
    IN [buster |-> m.buster, manifest |-> m.value,
        subpath |-> dict_get(m.value, subpath, subpath), kw |-> kw]

\* mres before any operation; after is the op of the operation before
NoManifestOp ==
    [op |-> "none", after |-> "none", reload |-> FALSE, raised |-> "",
     was_missing |-> FALSE, manifest |-> EmptyDict,
     subpath_in |-> None, kw_in |-> [_query |-> None],
     subpath |-> None, kw |-> [_query |-> None]]

MakeBuster ==
    /\ mcb.made = "no"
    /\ \E reload \in BOOLEAN :
          LET r == manifest_init(mfile, reload)
          IN /\ mcb' = r.buster
             /\ mres' = [NoManifestOp EXCEPT !.op = "init", !.after = mres.op,
                                             !.reload = reload, !.raised = r.raised]
    /\ UNCHANGED <<mfile, coreVars, bustVars, addViewVars, deriverVars>>

ManifestAccess ==
    /\ mcb.made = "yes"
    /\ LET r == manifest(mcb, mfile)
       IN /\ mcb' = r.buster
          /\ mres' = [NoManifestOp EXCEPT !.op = "manifest", !.after = mres.op,
                                          !.was_missing = mres.was_missing,
                                          !.manifest = r.value]
    /\ UNCHANGED <<mfile, coreVars, bustVars, addViewVars, deriverVars>>

ManifestCall ==
    /\ mcb.made = "yes"
    /\ \E subpath \in Subpaths, kw \in Kws :
          LET r == manifest_call(mcb, mfile, subpath, kw)
          IN /\ mcb' = r.buster
             /\ mres' = [NoManifestOp EXCEPT !.op = "call", !.after = mres.op,
                                             !.was_missing = mres.was_missing,
                                             !.manifest = r.manifest,
                                             !.subpath_in = subpath, !.kw_in = kw,
                                             !.subpath = r.subpath, !.kw = r.kw]
    /\ UNCHANGED <<mfile, coreVars, bustVars, addViewVars, deriverVars>>

\* the manifest file is written (made, or replaced by another content or
\* with another modification time) or removed
WriteManifest ==
    /\ \E c \in ManifestContents, t \in 1..MaxMtime :
          /\ mfile # <<[content |-> c, mtime |-> t]>>
          /\ mfile' = <<[content |-> c, mtime |-> t]>>
    /\ mres' = [NoManifestOp EXCEPT !.op = "written", !.after = mres.op,
                                    !.was_missing = (mfile = <<>>)]
    /\ UNCHANGED <<mcb, coreVars, bustVars, addViewVars, deriverVars>>

RemoveManifest ==
    /\ mfile # <<>>
    /\ mfile' = <<>>
    /\ mres' = [NoManifestOp EXCEPT !.op = "removed", !.after = mres.op]
    /\ UNCHANGED <<mcb, coreVars, bustVars, addViewVars, deriverVars>>

NextManifest ==
    MakeBuster \/ ManifestAccess \/ ManifestCall \/ WriteManifest \/ RemoveManifest

----------------------------------------------------------------------------
(* StaticURLInfo: the cache busters *)

\* An asset spec or path is a string, modelled as the sequence of its
\* characters. str.startswith(prefix):
startswith(str, prefix) ==
    Len(prefix) <= Len(str) /\ SubSeq(str, 1, Len(prefix)) = prefix

\* str.endswith(c) for a single character c
endswith(str, c) == str # <<>> /\ str[Len(str)] = c

\* the specs given to add_cache_buster
CacheBusterSpecs ==
    {<<"a", ":">>, <<"a", ":", "b">>, <<"a", ":", "b", "/">>,
     <<"a", ":", "b", "/", "c">>, <<"d">>}

\* the trailing separator add_cache_buster gives a spec
with_trailing_sep(spec) ==
    IF ~endswith(spec, "/") /\ ~endswith(spec, ":") THEN Append(spec, "/") ELSE spec

\* the loop of register(): new_idx and old_idx (0 standing for None), as
\* positions counted from 1
find_idx(busters, spec, explicit) ==
    LET same(i) == spec = busters[i].spec /\ explicit = busters[i].explicit
        past(i) == ~explicit /\ busters[i].explicit
        shorter(i) == /\ explicit = busters[i].explicit
                      /\ Len(spec) < Len(busters[i].spec)
        stop == {i \in DOMAIN busters : same(i) \/ past(i) \/ shorter(i)}
    IN IF stop = {} THEN [new_idx |-> Len(busters) + 1, old_idx |-> 0]
       ELSE IF same(Min(stop)) THEN [new_idx |-> Min(stop), old_idx |-> Min(stop)]
       ELSE [new_idx |-> Min(stop), old_idx |-> 0]

\* list.pop(idx) and list.insert(idx, item), positions counted from 1
list_pop(l, idx) == SubSeq(l, 1, idx - 1) \o SubSeq(l, idx + 1, Len(l))
list_insert(l, idx, item) == SubSeq(l, 1, idx - 1) \o <<item>> \o SubSeq(l, idx, Len(l))

\* StaticURLInfo.add_cache_buster(config, spec, cachebust, explicit) and its
\* register(), under the setting pyramid.prevent_cachebust
add_cache_buster(busters, spec0, cachebust, explicit, prevent_cachebust) ==
    LET spec == with_trailing_sep(spec0)
        found == find_idx(busters, spec, explicit)
        popped == IF found.old_idx # 0 THEN list_pop(busters, found.old_idx) ELSE busters
    IN IF prevent_cachebust THEN busters
       ELSE list_insert(popped, found.new_idx,
                        [spec |-> spec, cachebust |-> cachebust, explicit |-> explicit])

\* the first index of a list, in the order given, whose cache buster matches
FirstMatch(busters, order, pathspec, rawspec) ==
    LET hit == {k \in DOMAIN order :
                  LET b == busters[order[k]]
                  IN \/ b.explicit /\ startswith(rawspec, b.spec)
                     \/ ~b.explicit /\ startswith(pathspec, b.spec)}
    IN IF hit = {} THEN <<>> ELSE <<order[Min(hit)]>>

\* cachebust(request, subpath, kw) of the cache buster with this name: the
\* subpath comes back marked with the name
cachebust_call(cachebust, subpath) == Append(subpath, cachebust)

\* the asset specs of the static views, the subpaths below them and the
\* paths IPackageOverrides may give for an asset (<<>>: no override)
StaticSpecs == {<<"a", ":">>, <<"a", ":", "b", "/">>, <<"d", "/">>, <<"e", ":">>}
AssetSubpaths == {<<"x">>, <<"c", "/", "x">>}
OverridePaths == {<<>>, <<"d", "/", "x">>, <<"a", ":", "b", "/", "c", "/", "x">>, <<"f", "/", "x">>}

\* _bust_asset_path with a fault: the cache busters are tried in the order of
\* the list, not in reverse
_bust_asset_path_forward(busters, spec, subpath, override) ==
    LET pathspec == spec \o subpath
        rawspec == IF override = <<>> THEN pathspec ELSE override
        first == FirstMatch(busters, [k \in DOMAIN busters |-> k], pathspec, rawspec)
    IN [pathspec |-> pathspec, rawspec |-> rawspec,
        applied |-> [i \in DOMAIN first |-> busters[first[i]].cachebust],
        subpath |-> IF first = <<>> THEN <<subpath>>
                    ELSE cachebust_call(busters[first[1]].cachebust, <<subpath>>)]

\* StaticURLInfo._bust_asset_path(request, spec, subpath, kw): kw's pathspec
\* and rawspec, the cache busters called and the subpath returned (the
\* subpath given, followed by the name of the cache buster that handled it)
_bust_asset_path(busters, spec, subpath, override) ==
    LET pathspec == spec \o subpath
        rawspec == IF override = <<>> THEN pathspec ELSE override
        reversed == [k \in DOMAIN busters |-> Len(busters) + 1 - k]
        first == FirstMatch(busters, reversed, pathspec, rawspec)
    IN [pathspec |-> pathspec, rawspec |-> rawspec,
        applied |-> [i \in DOMAIN first |-> busters[first[i]].cachebust],
        subpath |-> IF first = <<>> THEN <<subpath>>
                    ELSE cachebust_call(busters[first[1]].cachebust, <<subpath>>)]

NoBust == [op |-> "none", subpath_in |-> <<>>, pathspec |-> <<>>, rawspec |-> <<>>,
           applied |-> <<>>, subpath |-> <<>>]

\* the cache buster of the n-th add_cache_buster call is named n
AddCacheBuster ==
    /\ cb_n < MaxBusters
    /\ \E spec \in CacheBusterSpecs, explicit \in BOOLEAN, prevent \in BOOLEAN :
          cache_busters' = add_cache_buster(cache_busters, spec, cb_n + 1, explicit, prevent)
    /\ cb_n' = cb_n + 1
    /\ bust' = NoBust
    /\ UNCHANGED <<coreVars, manifestVars, addViewVars, deriverVars>>

\* StaticURLInfo.generate calls _bust_asset_path when there are cache busters
BustAssetPath ==
    /\ bust.op = "none"
    /\ cache_busters # <<>>
    /\ \E spec \in StaticSpecs, subpath \in AssetSubpaths, override \in OverridePaths :
          LET r == _bust_asset_path(cache_busters, spec, subpath, override)
          IN bust' = [op |-> "_bust_asset_path", subpath_in |-> subpath,
                      pathspec |-> r.pathspec, rawspec |-> r.rawspec,
                      applied |-> r.applied, subpath |-> r.subpath]
    /\ UNCHANGED <<cache_busters, cb_n, coreVars, manifestVars, addViewVars, deriverVars>>

NextBust == AddCacheBuster \/ BustAssetPath

----------------------------------------------------------------------------
(* add_view: the classifiers a view is registered under *)

\* The context arguments: None, a class, an interface, an exception class
\* and an interface that extends IException.
Classes == {"Root", "KeyError"}
Interfaces == {"IResource", "IMyException"}
Contexts == {None} \cup Classes \cup Interfaces

\* isexception(o): an interface that IException is equal to or extended by,
\* or a subclass of Exception
isexception(o) ==
    \/ o \in Interfaces /\ o \in {"IMyException"}
    \/ o \in Classes /\ o \in {"KeyError"}

Classifiers == {"IViewClassifier", "IExceptionViewClassifier"}

\* r_context of add_view: the interface the context stands for
r_context_of(context) == IF context = None THEN "Interface" ELSE context

\* the adapters of every triad (classifier, request_iface, r_context), for
\* one request_iface and one view name
Triads == Classifiers \X {r_context_of(c) : c \in Contexts}
NoViews == [t \in Triads |-> NoAdapters]

\* add_view with a fault: exception_only is not looked at when registering
add_view_both(regs, context0, for_, exception_only, n, order, phash, permissive) ==
    LET context == IF context0 = None THEN for_ ELSE context0
        isexc == isexception(context)
        r_context == r_context_of(context)
        derived_view == attr_wrapped_view(2 * n - 1, order, phash, None, permissive)
        derived_exc_view == attr_wrapped_view(2 * n, order, phash, None, permissive)
        normal == [regs EXCEPT ![<<"IViewClassifier", r_context>>] =
                      register_view(@, derived_view, order, phash, None, <<>>, <<>>)]
        both == IF isexc
                THEN [normal EXCEPT ![<<"IExceptionViewClassifier", r_context>>] =
                         register_view(@, derived_exc_view, order, phash, None, <<>>, <<>>)]
                ELSE normal
    IN IF exception_only /\ ~isexc
       THEN [raised |-> "ConfigurationError", adapters |-> regs, context |-> context]
       ELSE [raised |-> "", adapters |-> both, context |-> context]

\* add_view(view, context=context0, for_=for_, exception_only=...) and its
\* register(): the n-th call derives the views 2n-1 (normal path) and 2n
\* (exception path); order and phash are those of the call's predicates,
\* which has no accept
add_view(regs, context0, for_, exception_only, n, order, phash, permissive) ==
    LET context == IF context0 = None THEN for_ ELSE context0
        isexc == isexception(context)
        r_context == r_context_of(context)
        derived_view == attr_wrapped_view(2 * n - 1, order, phash, None, permissive)
        derived_exc_view == attr_wrapped_view(2 * n, order, phash, None, permissive)
        normal == IF ~exception_only
                  THEN [regs EXCEPT ![<<"IViewClassifier", r_context>>] =
                           register_view(@, derived_view, order, phash, None, <<>>, <<>>)]
                  ELSE regs
        both == IF isexc
                THEN [normal EXCEPT ![<<"IExceptionViewClassifier", r_context>>] =
                         register_view(@, derived_exc_view, order, phash, None, <<>>, <<>>)]
                ELSE normal
    IN IF exception_only /\ ~isexc
       THEN [raised |-> "ConfigurationError", adapters |-> regs, context |-> context]
       ELSE [raised |-> "", adapters |-> both, context |-> context]

\* the (context, for_) arguments and the (order, phash) of the predicates
ContextArgs == {<<c, None>> : c \in Contexts} \cup {<<None, "KeyError">>}
PredicateArgs == {<<MAX_ORDER, DEFAULT_PHASH>>, <<1, "h1">>}

NoAddView ==
    [op |-> "none", context |-> None, exception_only |-> FALSE, raised |-> "",
     n |-> 0, before |-> NoViews]

AddView ==
    /\ av_n < MaxViews
    /\ \E ca \in ContextArgs, exception_only \in BOOLEAN, pa \in PredicateArgs,
          permissive \in BOOLEAN :
          LET r == add_view(adapters, ca[1], ca[2], exception_only, av_n + 1,
                            pa[1], pa[2], permissive)
          IN /\ adapters' = r.adapters
             /\ av' = [op |-> "add_view", context |-> r.context,
                       exception_only |-> exception_only, raised |-> r.raised,
                       n |-> av_n + 1, before |-> adapters]
    /\ av_n' = av_n + 1
    /\ UNCHANGED <<coreVars, manifestVars, bustVars, deriverVars>>

NextAddView == AddView

----------------------------------------------------------------------------
(* View derivers: add_view_deriver, add_default_view_derivers and            *)
(* _apply_view_derivers, over pyramid.util.TopologicalSorter                 *)

INGRESS == "INGRESS"
VIEW == "VIEW"

\* the derivers of add_default_view_derivers, in the order of its list
DefaultDerivers ==
    <<"secured_view", "owrapped_view", "http_cached_view", "decorated_view",
      "rendered_view", "mapped_view">>
CustomDerivers == {"d1", "d2"}

\* every name of the model, in the order sorted() gives strings
SortedNames ==
    <<"INGRESS", "VIEW", "csrf_view", "d1", "d2", "decorated_view",
      "http_cached_view", "mapped_view", "owrapped_view", "rendered_view",
      "secured_view">>
DeriverNames == SeqToSet(SortedNames)
NameRank(n) == CHOOSE i \in DOMAIN SortedNames : SortedNames[i] = n

\* as_sorted_tuple(val) of a tuple: tuple(sorted(val))
as_sorted_tuple(val) ==
    LET keyed == [i \in DOMAIN val |-> [k |-> NameRank(val[i]), v |-> val[i]]]
        sorted == SortByKey(keyed)
    IN [i \in DOMAIN sorted |-> sorted[i].v]

\* TopologicalSorter(default_before=None, default_after=INGRESS,
\* first=INGRESS, last=VIEW): names, the arcs (a before b) in the order they
\* were added, and the after / before tuples of every name (<<>>: none)
NewSorter ==
    [names |-> <<>>, order |-> <<>>,
     name2after |-> [n \in DeriverNames |-> <<>>],
     name2before |-> [n \in DeriverNames |-> <<>>]]

\* list.remove(x): without the first x
RemoveFirst(l, x) ==
    LET hit == {i \in DOMAIN l : l[i] = x}
    IN IF hit = {} THEN l ELSE list_pop(l, Min(hit))

RECURSIVE RemoveArcs(_, _)
RemoveArcs(order, arcs) ==
    IF arcs = <<>> THEN order
    ELSE RemoveArcs(RemoveFirst(order, Head(arcs)), Tail(arcs))

\* TopologicalSorter.remove(name)
sorter_remove(s, name) ==
    LET after == s.name2after[name]
        before == s.name2before[name]
        arcs == [i \in DOMAIN after |-> <<after[i], name>>]
                    \o [i \in DOMAIN before |-> <<name, before[i]>>]
    IN [names |-> RemoveFirst(s.names, name),
        order |-> RemoveArcs(s.order, arcs),
        name2after |-> [s.name2after EXCEPT ![name] = <<>>],
        name2before |-> [s.name2before EXCEPT ![name] = <<>>]]

\* TopologicalSorter.add(name, val, after=after, before=before), both given
sorter_add(s0, name, after, before) ==
    LET s == IF name \in SeqToSet(s0.names) THEN sorter_remove(s0, name) ELSE s0
    IN [names |-> Append(s.names, name),
        order |-> s.order \o [i \in DOMAIN after |-> <<after[i], name>>]
                          \o [i \in DOMAIN before |-> <<name, before[i]>>],
        name2after |-> [s.name2after EXCEPT ![name] = after],
        name2before |-> [s.name2before EXCEPT ![name] = before]]

\* the subsequence of the arcs between two of these names
RECURSIVE ArcsAmong(_, _)
ArcsAmong(order, names) ==
    IF order = <<>> THEN <<>>
    ELSE IF Head(order)[1] \in names /\ Head(order)[2] \in names
    THEN <<Head(order)>> \o ArcsAmong(Tail(order), names)
    ELSE ArcsAmong(Tail(order), names)

\* graph[node][1:]: the ends of the arcs from a node, in the order of the arcs
RECURSIVE ChildrenOf(_, _)
ChildrenOf(arcs, node) ==
    IF arcs = <<>> THEN <<>>
    ELSE IF Head(arcs)[1] = node
    THEN <<Head(arcs)[2]>> \o ChildrenOf(Tail(arcs), node)
    ELSE ChildrenOf(Tail(arcs), node)

\* the for loop over the children of a root: a child whose last arc is gone
\* goes to the front of roots
RECURSIVE topo_visit(_, _, _)
topo_visit(children, roots, arcs_in) ==
    IF children = <<>> THEN [roots |-> roots, arcs_in |-> arcs_in]
    ELSE LET child == Head(children)
             left == arcs_in[child] - 1
         IN topo_visit(Tail(children),
                       IF left = 0 THEN <<child>> \o roots ELSE roots,
                       [arcs_in EXCEPT ![child] = left])

\* the while loop of sorted(): the names in the order they leave roots
RECURSIVE topo_loop(_, _, _, _)
topo_loop(roots, arcs_in, graph, sorted_names) ==
    IF roots = <<>> THEN sorted_names
    ELSE LET v == topo_visit(graph[Head(roots)], Tail(roots), arcs_in)
         IN topo_loop(v.roots, v.arcs_in, graph, Append(sorted_names, Head(roots)))

\* TopologicalSorter.sorted(): the names from first to last, or the
\* exception raised
sorter_sorted(s) ==
    LET names == <<INGRESS, VIEW>> \o s.names
        nameset == SeqToSet(names)
        arcs == ArcsAmong(<<<<INGRESS, VIEW>>>> \o s.order, nameset)
        arcs_in == [n \in nameset |-> Cardinality({i \in DOMAIN arcs : arcs[i][2] = n})]
        graph == [n \in nameset |-> ChildrenOf(arcs, n)]
        roots == Filter(names, {n \in nameset : arcs_in[n] = 0})
        has_before == {arcs[i][1] : i \in DOMAIN arcs}
        has_after == {arcs[i][2] : i \in DOMAIN arcs}
        req_before == {n \in SeqToSet(s.names) : s.name2before[n] # <<>>}
        req_after == {n \in SeqToSet(s.names) : s.name2after[n] # <<>>}
        sorted_names == topo_loop(roots, arcs_in, graph, <<>>)
    IN IF ~(req_before \subseteq has_before) \/ ~(req_after \subseteq has_after)
       THEN [raised |-> "ConfigurationError", result |-> <<>>]
       ELSE IF Len(sorted_names) < Len(names)
       THEN [raised |-> "CyclicDependencyError", result |-> <<>>]
       ELSE [raised |-> "", result |-> Filter(sorted_names, SeqToSet(s.names))]

\* add_view_deriver with a fault: without under the deriver goes anywhere
\* after INGRESS
add_view_deriver_under_ingress(s, name, under0, over0) ==
    LET under == as_sorted_tuple(<<IF under0 = None THEN INGRESS ELSE under0>>)
        over1 == as_sorted_tuple(<<IF over0 = None THEN "rendered_view" ELSE over0>>)
        over == IF VIEW \in SeqToSet(over1) /\ name # "mapped_view"
                THEN as_sorted_tuple(over1 \o <<"mapped_view">>) ELSE over1
    IN IF name \in {INGRESS, VIEW} \/ INGRESS \in SeqToSet(over1)
          \/ VIEW \in SeqToSet(under) \/ "mapped_view" \in SeqToSet(under)
       THEN [raised |-> "ConfigurationError", derivers |-> s]
       ELSE [raised |-> "", derivers |-> sorter_add(s, name, under, over)]

\* add_view_deriver(deriver, name=name, under=under0, over=over0) and its
\* register(); under0 and over0 are a name or None
add_view_deriver(s, name, under0, over0) ==
    LET under == as_sorted_tuple(<<IF under0 = None THEN "decorated_view" ELSE under0>>)
        over1 == as_sorted_tuple(<<IF over0 = None THEN "rendered_view" ELSE over0>>)
        over == IF VIEW \in SeqToSet(over1) /\ name # "mapped_view"
                THEN as_sorted_tuple(over1 \o <<"mapped_view">>) ELSE over1
    IN IF name \in {INGRESS, VIEW} \/ INGRESS \in SeqToSet(over1)
          \/ VIEW \in SeqToSet(under) \/ "mapped_view" \in SeqToSet(under)
       THEN [raised |-> "ConfigurationError", derivers |-> s]
       ELSE [raised |-> "", derivers |-> sorter_add(s, name, under, over)]

\* the for loop of add_default_view_derivers, from the i-th deriver on
RECURSIVE add_defaults_from(_, _, _)
add_defaults_from(s, i, last_name) ==
    IF i > Len(DefaultDerivers) THEN s
    ELSE add_defaults_from(
             add_view_deriver(s, DefaultDerivers[i], last_name, VIEW).derivers,
             i + 1, DefaultDerivers[i])

\* add_default_view_derivers with a fault: csrf_view is only put under
\* secured_view
add_default_view_derivers_loose(s) ==
    add_view_deriver(add_defaults_from(s, 1, INGRESS),
                     "csrf_view", "secured_view", VIEW).derivers

\* add_default_view_derivers()
add_default_view_derivers(s) ==
    add_view_deriver(add_defaults_from(s, 1, INGRESS),
                     "csrf_view", "secured_view", "owrapped_view").derivers

\* the for loop of _apply_view_derivers: every deriver of the list, in its
\* order, wraps the view; a view is the sequence of its wrappers from the
\* outermost to the original view
RECURSIVE wrap_all(_, _)
wrap_all(list, view) ==
    IF list = <<>> THEN view
    ELSE wrap_all(Tail(list), <<Head(list)>> \o view)

\* reversed(list)
reversed(list) == [i \in DOMAIN list |-> list[Len(list) + 1 - i]]

OriginalView == "original_view"

\* _apply_view_derivers with a fault: the list is not reversed
_apply_view_derivers_forward(s) ==
    LET outer_derivers == <<"attr_wrapped_view", "predicated_view">>
        got == sorter_sorted(s)
    IN IF got.raised # "" THEN [raised |-> got.raised, view |-> <<>>]
       ELSE [raised |-> "",
             view |-> wrap_all(outer_derivers \o got.result, <<OriginalView>>)]

\* _apply_view_derivers(info)
_apply_view_derivers(s) ==
    LET outer_derivers == <<"attr_wrapped_view", "predicated_view">>
        got == sorter_sorted(s)
    IN IF got.raised # "" THEN [raised |-> got.raised, view |-> <<>>]
       ELSE [raised |-> "",
             view |-> wrap_all(reversed(outer_derivers \o got.result), <<OriginalView>>)]

\* the under and over arguments of the add_view_deriver calls
UnderArgs == {None, INGRESS, "d1", VIEW}
OverArgs == {None, VIEW, "d2", INGRESS}

\* no add_view_deriver call yet; plain holds the names last added without
\* under and without over
NoDerivers == [n |-> 0, defaults |-> FALSE, plain |-> {}]
NoSort == [op |-> "none", raised |-> "", order |-> <<>>, view |-> <<>>]

AddViewDeriver ==
    /\ dcfg.n < MaxDerivers
    /\ \E name \in CustomDerivers, under \in UnderArgs, over \in OverArgs :
          LET r == add_view_deriver(derivers, name, under, over)
          IN /\ derivers' = r.derivers
             /\ dcfg' = [dcfg EXCEPT
                           !.n = @ + 1,
                           !.plain = IF r.raised # "" THEN @
                                     ELSE IF under = None /\ over = None
                                     THEN @ \cup {name} ELSE @ \ {name}]
             /\ dv' = [NoSort EXCEPT !.op = "add_view_deriver", !.raised = r.raised]
    /\ UNCHANGED <<coreVars, manifestVars, bustVars, addViewVars>>

AddDefaultViewDerivers ==
    /\ ~dcfg.defaults
    /\ derivers' = add_default_view_derivers(derivers)
    /\ dcfg' = [dcfg EXCEPT !.defaults = TRUE]
    /\ dv' = [NoSort EXCEPT !.op = "add_default_view_derivers"]
    /\ UNCHANGED <<coreVars, manifestVars, bustVars, addViewVars>>

SortDerivers ==
    /\ dv.op # "sorted"
    /\ LET r == sorter_sorted(derivers)
       IN dv' = [NoSort EXCEPT !.op = "sorted", !.raised = r.raised, !.order = r.result]
    /\ UNCHANGED <<derivers, dcfg, coreVars, manifestVars, bustVars, addViewVars>>

ApplyViewDerivers ==
    /\ dv.op # "apply"
    /\ LET r == _apply_view_derivers(derivers)
       IN dv' = [NoSort EXCEPT !.op = "apply", !.raised = r.raised, !.view = r.view]
    /\ UNCHANGED <<derivers, dcfg, coreVars, manifestVars, bustVars, addViewVars>>

NextDerivers ==
    AddViewDeriver \/ AddDefaultViewDerivers \/ SortDerivers \/ ApplyViewDerivers

----------------------------------------------------------------------------
(* Specifications *)

\* A new MultiView, a registry with nothing registered for the triad and a
\* static_view made with the defaults of static_view.__init__, serving nothing.
Init ==
    /\ mv = NewMultiView
    /\ mv_n = 0
    /\ disp = Idle
    /\ reg = NoAdapters
    /\ reg_n = 0
    /\ last = NoCall
    /\ sv = [reload |-> FALSE, content_encodings |-> _compile_content_encodings({})]
    /\ sizes = [p \in Paths |-> 1]
    /\ disk = {}
    /\ filemap = [n \in ResourceNames |-> <<>>]
    /\ resp = NoResponse
    /\ mcb = NoBuster
    /\ mfile = <<>>
    /\ mres = NoManifestOp
    /\ cache_busters = <<>>
    /\ cb_n = 0
    /\ bust = NoBust
    /\ adapters = NoViews
    /\ av_n = 0
    /\ av = NoAddView
    /\ derivers = NewSorter
    /\ dcfg = NoDerivers
    /\ dv = NoSort

\* static_view.__init__ with any reload and content_encodings, over any disk
InitStatic ==
    /\ mv = NewMultiView
    /\ mv_n = 0
    /\ disp = Idle
    /\ reg = NoAdapters
    /\ reg_n = 0
    /\ last = NoCall
    /\ sv \in {[reload |-> r, content_encodings |-> _compile_content_encodings(ce)] :
                 r \in BOOLEAN, ce \in SUBSET Encodings}
    /\ sizes \in [Paths -> 1..MaxSize]
    /\ disk \in SUBSET Paths
    /\ filemap = [n \in ResourceNames |-> <<>>]
    /\ resp = NoResponse
    /\ mcb = NoBuster
    /\ mfile = <<>>
    /\ mres = NoManifestOp
    /\ cache_busters = <<>>
    /\ cb_n = 0
    /\ bust = NoBust
    /\ adapters = NoViews
    /\ av_n = 0
    /\ av = NoAddView
    /\ derivers = NewSorter
    /\ dcfg = NoDerivers
    /\ dv = NoSort

SpecMV == Init /\ [][NextMV]_vars
SpecDispatch == Init /\ [][NextDispatch]_vars
SpecViews == Init /\ [][NextViews]_vars
SpecStatic == InitStatic /\ [][NextStatic]_vars
SpecManifest == Init /\ [][NextManifest]_vars
SpecBust == Init /\ [][NextBust]_vars
SpecAddView == Init /\ [][NextAddView]_vars
SpecDerivers == Init /\ [][NextDerivers]_vars

----------------------------------------------------------------------------
(* The view registry: C1 - C3 (SpecViews) *)

Registered(r) == {t \in {"IView", "ISecuredView", "IMultiView"} : r[t] # <<>>}

\* the entries of a MultiView, whatever list they are in
AllEntries(m) ==
    SeqToSet(m.views) \cup UNION {SeqToSet(m.media_views[a]) : a \in MediaTypes}

\* the entries of the list of a MultiView that holds the views of this accept
ListOf(m, accept) ==
    IF accept = None THEN SeqToSet(m.views) ELSE SeqToSet(m.media_views[accept])

\* C1: after any sequence of register_view calls for the triad, the registry
\* holds exactly one registration for it: one single view (IView or
\* ISecuredView) or one MultiView, never two at the same time.
C1_OneRegistration ==
    /\ Cardinality(Registered(reg)) <= 1
    /\ reg_n > 0 => Cardinality(Registered(reg)) = 1

\* the state the code reaches against C1: a view without __call_permissive__
\* stays registered as IView beside its override registered as ISecuredView
C1_BothSingles == reg.IView # <<>> /\ reg.ISecuredView # <<>>

\* the last call was register_view, the lookup before it found a single view
\* (not a MultiView), and the phash of that view is / is not the new phash
OldSingle ==
    /\ last.op = "register_view"
    /\ find_view(last.before).found # <<>>
    /\ find_view(last.before).type # "IMultiView"

OldSingleView == find_view(last.before).found[1]

OldSinglePhash ==
    IF OldSingleView.wrapped THEN OldSingleView.phash ELSE DEFAULT_PHASH

\* C2: a view registered with the phash of the single view the triad holds
\* overrides it: no MultiView is made, and a lookup that tries IView, then
\* ISecuredView, then IMultiView finds the new view, with or without
\* __call_permissive__ on either view.
C2_OverrideWins ==
    (OldSingle /\ OldSinglePhash = last.phash)
        => /\ reg.IMultiView = <<>>
           /\ find_view(reg).found = <<last.view>>

\* C3: (a) a view registered with a phash other than that of the single view
\* the triad holds leaves one MultiView and no single view; the MultiView
\* holds the old view under its own __order__, __phash__ and __accept__
\* (MAX_ORDER, DEFAULT_PHASH and None when it has none) and the new view
\* under the order, phash and accept of the call. (b) When the triad holds a
\* MultiView, the new view is added to it and every entry it held with
\* another phash is still in the same list.
C3_MultiViewKeepsViews ==
    /\ (OldSingle /\ OldSinglePhash # last.phash)
        => /\ Registered(reg) = {"IMultiView"}
           /\ LET m == reg.IMultiView[1]
                  old == OldSingleView
                  old_entry ==
                      [order |-> IF old.wrapped THEN old.order ELSE MAX_ORDER,
                       view |-> old, phash |-> OldSinglePhash]
                  new_entry ==
                      [order |-> last.order, view |-> last.view, phash |-> last.phash]
              IN /\ old_entry \in ListOf(m, IF old.wrapped THEN old.accept ELSE None)
                 /\ new_entry \in ListOf(m, last.accept)
                 /\ AllEntries(m) = {old_entry, new_entry}
    /\ (last.op = "register_view" /\ Registered(last.before) = {"IMultiView"})
        => /\ Registered(reg) = {"IMultiView"}
           /\ LET m == reg.IMultiView[1]
                  before == last.before.IMultiView[1]
              IN /\ \E e \in AllEntries(m) :
                       e = [order |-> last.order, view |-> last.view,
                            phash |-> last.phash]
                 /\ \A a \in Accepts : \A e \in ListOf(before, a) :
                       e.phash # last.phash => e \in ListOf(m, a)

\* C3's cases: a MultiView made from an old view without attributes and a
\* new one, and a third view added to a MultiView that held two
C3_Witness ==
    /\ last.op = "register_view"
    /\ Registered(last.before) = {"IMultiView"}
    /\ Cardinality(AllEntries(last.before.IMultiView[1])) = 2
    /\ Cardinality(AllEntries(reg.IMultiView[1])) = 3
    /\ \E e \in AllEntries(reg.IMultiView[1]) : ~e.view.wrapped /\ e.order = MAX_ORDER

----------------------------------------------------------------------------
(* MultiView: C4 (SpecMV), C5 - C7 (SpecDispatch) *)

\* C4: after any sequence of MultiView.add calls, views and every list of
\* media_views are sorted by non-decreasing order, also after an add that
\* replaces an entry of the same phash by one of another order.
C4_Sorted ==
    /\ IsSortedByOrder(mv.views)
    /\ \A a \in MediaTypes : IsSortedByOrder(mv.media_views[a])

\* the state the code reaches against C4: a replaced entry out of order
C4_Unsorted == ~IsSortedByOrder(mv.views)

\* the media types of the MultiView that the request accepts
Acceptable(request) == {a \in SeqToSet(mv.accepts) : request.q[a] > 0}

\* p lists media types in the order of the request's acceptable offers: by
\* descending quality, types of equal quality in the order of mv.accepts
InOfferOrder(p, request) ==
    LET pos(a) == CHOOSE i \in DOMAIN mv.accepts : mv.accepts[i] = a
    IN \A i, j \in DOMAIN p : i < j =>
          \/ request.q[p[i]] > request.q[p[j]]
          \/ request.q[p[i]] = request.q[p[j]] /\ pos(p[i]) < pos(p[j])

\* C5: when the MultiView has an accept-specific view and the request has an
\* accept attribute, get_views returns the views of every media type the
\* request accepts, grouped in the order of the request's acceptable offers,
\* then all views registered without accept; no view of a media type the
\* request does not accept is a candidate.
C5_GetViews ==
    (disp.op = "get_views" /\ mv.accepts # <<>> /\ disp.request.has_accept)
        => /\ \E p \in Perms(Acceptable(disp.request)) :
                 /\ InOfferOrder(p, disp.request)
                 /\ disp.cands =
                        Flatten([i \in DOMAIN p |-> mv.media_views[p[i]]]) \o mv.views
           /\ \A a \in MediaTypes : disp.request.q[a] = 0 =>
                 SeqToSet(mv.media_views[a]) \cap SeqToSet(disp.cands) = {}
           /\ SeqToSet(mv.views) \subseteq SeqToSet(disp.cands)

\* C5's case: the request accepts both media types of the MultiView and
\* prefers the one the MultiView lists last, whose view comes first
C5_Witness ==
    /\ disp.op = "get_views" /\ disp.request.has_accept
    /\ Len(mv.accepts) = 2 /\ Len(disp.cands) = 2
    /\ disp.request.q[mv.accepts[2]] > disp.request.q[mv.accepts[1]]
    /\ disp.request.q[mv.accepts[1]] > 0
    /\ disp.cands[1] \in SeqToSet(mv.media_views[mv.accepts[2]])

\* the candidates of disp are what get_views returns for some request
CandsFromGetViews == \E request \in Requests : disp.cands = get_views(mv, request)

\* C6: match returns the first view, in get_views order, without
\* __predicated__ or whose __predicated__ is true, and raises
\* PredicateMismatch exactly when no candidate qualifies.
C6_Match ==
    disp.op = "match"
        => LET ok == {i \in DOMAIN disp.cands :
                        disp.beh[disp.cands[i].view] \in {"absent", "true"}}
           IN /\ CandsFromGetViews
              /\ (disp.outcome = "PredicateMismatch") <=> (ok = {})
              /\ ok # {} => /\ disp.outcome = "view"
                            /\ disp.view = disp.cands[Min(ok)].view

\* C6's cases: the second candidate is returned because the predicate of the
\* first is false; the second candidate has no __predicated__
C6_Witness ==
    /\ disp.op = "match" /\ Len(disp.cands) >= 2
    /\ disp.beh[disp.cands[1].view] = "false"
    /\ disp.beh[disp.cands[2].view] = "absent"
    /\ disp.view = disp.cands[2].view

\* C7: __call__ invokes the candidates in get_views order up to and including
\* the first that does not raise PredicateMismatch; it returns that
\* candidate's response, or lets its exception through; it raises
\* PredicateMismatch itself only when every candidate raised it.
C7_Call ==
    disp.op = "call"
        => LET ids == [i \in DOMAIN disp.cands |-> disp.cands[i].view]
               stop == {i \in DOMAIN ids : disp.beh[ids[i]] # "mismatch"}
           IN /\ CandsFromGetViews
              /\ stop = {} => /\ disp.outcome = "PredicateMismatch"
                              /\ disp.invoked = ids
              /\ stop # {} => /\ disp.invoked = SubSeq(ids, 1, Min(stop))
                              /\ disp.outcome = disp.beh[ids[Min(stop)]]
                              /\ disp.view = ids[Min(stop)]
              /\ disp.outcome = "PredicateMismatch"
                    => \A i \in DOMAIN ids : disp.beh[ids[i]] = "mismatch"

\* C7's case: the first candidate raises PredicateMismatch, the second
\* answers (or raises something else) and is the last one invoked
C7_Witness ==
    /\ disp.op = "call" /\ Len(disp.cands) >= 2
    /\ disp.beh[disp.cands[1].view] = "mismatch"
    /\ disp.outcome \in {"response", "error"}
    /\ disp.invoked = <<disp.cands[1].view, disp.cands[2].view>>

----------------------------------------------------------------------------
(* static_view: C8 - C12 (SpecStatic) *)

\* the last call looked the resource up and chose among its candidate files
LookedUp == resp.kind \in {"response", "HTTPNotFound", "OSError"} /\ resp.resource # <<>>

\* the candidates the client may be sent: the identity and the encodings the
\* request's Accept-Encoding accepts
Servable ==
    {i \in DOMAIN resp.files :
        \/ resp.files[i].encoding = None
        \/ resp.files[i].encoding \in resp.request.accept_encoding.ok}

\* C8: for a request with an Accept-Encoding header, find_best_match returns
\* a file of smallest size among the candidates whose encoding the client
\* accepts or is the identity, with that file's encoding, and (None, None)
\* when there is no such candidate.
C8_SmallestAcceptable ==
    (LookedUp /\ resp.request.accept_encoding.given)
        => /\ Servable = {} => resp.path = <<>> /\ resp.content_encoding = None
           /\ Servable # {} =>
                 /\ resp.path # <<>>
                 /\ \E i \in Servable :
                       /\ resp.files[i].path = resp.path[1]
                       /\ resp.files[i].encoding = resp.content_encoding
                 /\ \A i \in Servable : sizes[resp.path[1]] <= sizes[resp.files[i].path]

\* C8's case: an accepted encoded file that is smaller than the identity file
\* is chosen, while a still smaller file of a refused encoding is passed over
C8_Witness ==
    /\ LookedUp /\ resp.request.accept_encoding.given /\ resp.kind = "response"
    /\ Len(resp.files) = 3
    /\ resp.content_encoding # None
    /\ \E i \in DOMAIN resp.files :
          /\ resp.files[i].encoding = None
          /\ sizes[resp.files[i].path] > sizes[resp.path[1]]
    /\ resp.files[1].path # resp.path[1]

C10_VaryOnEncoded ==
    resp.kind = "response"
        => /\ resp.content_encoding # None => "Accept-Encoding" \in resp.vary
           /\ (\E i \in DOMAIN sv.content_encodings :
                  [name |-> resp.resource[1], ext |-> sv.content_encodings[i].ext] \in disk)
                 => "Accept-Encoding" \in resp.vary

\* the state the code reaches against C10: the only candidate is an encoded
\* file, it is served with its Content-Encoding and Vary is not set
C10_EncodedWithoutVary ==
    /\ resp.kind = "response"
    /\ resp.content_encoding # None
    /\ "Accept-Encoding" \notin resp.vary

\* the paths of a resource that exist on this disk and that the view looks
\* for: the resource itself and its configured encoded alternatives
ExistingFiles(d, resource_name) ==
    {p \in d : /\ p.name = resource_name
               /\ \/ p.ext = ""
                  \/ \E i \in DOMAIN sv.content_encodings :
                        sv.content_encodings[i].ext = p.ext}

\* this step is a static_view call that reached get_possible_files
CallStepLookedUp ==
    /\ resp.kind = "none"
    /\ resp'.kind \in {"response", "HTTPNotFound", "OSError"}
    /\ resp'.resource # <<>>

\* C11: with reload=False, the list a get_possible_files call returns for a
\* name is the one every later call for that name returns: a call for a name
\* not yet looked up stores its list (the empty one too) in filemap, a stored
\* list never changes whatever happens to the disk, and a call for a name
\* with a stored list returns that list. With reload=True filemap stays
\* empty and every call returns exactly the files on disk at the call.
C11_CachedForever ==
    [][/\ ~sv.reload =>
            /\ \A n \in ResourceNames :
                  filemap[n] # <<>> => filemap'[n] = filemap[n]
            /\ CallStepLookedUp =>
                  LET n == resp'.resource[1]
                  IN /\ filemap'[n] = <<resp'.files>>
                     /\ filemap[n] # <<>> => resp'.files = filemap[n][1]
       /\ sv.reload =>
            /\ \A n \in ResourceNames : filemap'[n] = <<>>
            /\ CallStepLookedUp =>
                  {resp'.files[i].path : i \in DOMAIN resp'.files}
                      = ExistingFiles(disk', resp'.resource[1])]_vars

\* C11's case: with reload=False a call returns the empty list it cached at
\* the first lookup although the resource is on disk by now
C11_Witness ==
    /\ ~sv.reload
    /\ LookedUp
    /\ resp.files = <<>>
    /\ [name |-> resp.resource[1], ext |-> ""] \in disk

\* a path tuple with an element equal to '..', '.' or '', or containing a
\* separator
Insecure(path_tuple) ==
    \E i \in DOMAIN path_tuple :
        path_tuple[i] \in {"..", ".", ""} \cup SlashElements

\* C12: a request whose path tuple has an element equal to '..', '.' or '',
\* or containing '/' or os.sep, gets HTTPNotFound from get_resource_name:
\* no resource is looked up, no candidate is found, no file is chosen and
\* nothing is stored in filemap for such a name; every resource that is
\* looked up is made of plain path elements.
C12_SecurePath ==
    /\ (resp.kind # "none" /\ Insecure(resp.request.path_tuple))
          => /\ resp.kind = "HTTPNotFound"
             /\ resp.resource = <<>>
             /\ resp.files = <<>>
             /\ resp.path = <<>>
    /\ resp.resource # <<>> => ~Insecure(resp.resource[1])
    /\ \A n \in ResourceNames : Insecure(n) => filemap[n] = <<>>

\* C12's case: a request for ../a is refused while the file a is on disk
C12_Witness ==
    /\ resp.kind = "HTTPNotFound"
    /\ resp.request.path_tuple = <<"..", "a">>
    /\ [name |-> ResourceA, ext |-> ""] \in disk

----------------------------------------------------------------------------
(* ManifestCacheBuster: C13 - C15 (SpecManifest) *)

\* C13: __call__ returns the manifest's value for a subpath that is a key of
\* the current manifest (the mapping the manifest property gives at the call)
\* and the subpath itself when it is no key; kw comes back unchanged.
C13_CallMapsSubpath ==
    mres.op = "call"
        => /\ mres.manifest[mres.subpath_in] # <<>>
                 => mres.subpath = mres.manifest[mres.subpath_in][1]
           /\ mres.manifest[mres.subpath_in] = <<>>
                 => mres.subpath = mres.subpath_in
           /\ mres.kw = mres.kw_in

\* C13's case: a call with a query in kw for a subpath that is a key
C13_Witness ==
    /\ mres.op = "call"
    /\ mres.manifest[mres.subpath_in] # <<>>
    /\ mres.subpath \in BustedPaths
    /\ mres.kw._query = "v=1"

\* this step is an access to the manifest property of a buster made with
\* reload=True, right after the file was written
AccessAfterWrite ==
    /\ mcb.made = "yes" /\ mcb.reload
    /\ mres.op = "written"
    /\ mres'.op \in {"manifest", "call"}

\* C14: with reload=True, the access that follows a change of the manifest
\* file returns the mapping parsed from the file as it is now.
C14_ReloadsChanged ==
    [][(AccessAfterWrite /\ ~mres.was_missing)
          => mres'.manifest = parse_manifest(mfile[1].content)]_vars

\* the state the code reaches against C14: the file on disk was loaded at a
\* modification time that is not later than the one recorded, and the
\* mapping returned is not the one in the file
C14_Stale ==
    /\ mcb.reload
    /\ mres.op = "manifest"
    /\ mfile # <<>>
    /\ mres.manifest # parse_manifest(mfile[1].content)

\* C15: with reload=True an access while the file is missing gives the empty
\* mapping, and the access that follows the file's return gives the mapping
\* parsed from the file now on disk. With reload=False, construction fails
\* when the file is missing, and the mapping read at construction is the one
\* every access returns, whatever happens to the file.
C15_MissingFile ==
    [][/\ (mcb.made = "yes" /\ mcb.reload /\ mres'.op \in {"manifest", "call"}
             /\ mfile = <<>>)
          => mres'.manifest = EmptyDict
       /\ (AccessAfterWrite /\ mres.was_missing)
          => mres'.manifest = parse_manifest(mfile[1].content)
       /\ (mres'.op = "init" /\ ~mres'.reload)
          => IF mfile = <<>>
             THEN mres'.raised # "" /\ mcb'.made = "failed"
             ELSE mcb'._manifest = <<parse_manifest(mfile[1].content)>>
       /\ (mcb.made = "yes" /\ ~mcb.reload)
          => /\ mcb'._manifest = mcb._manifest
             /\ mres'.op \in {"manifest", "call"}
                   => mres'.manifest = mcb._manifest[1]]_vars

\* the state the code reaches against C15: the file was missing, is back, and
\* the access after its return gives another mapping than the file's
C15_StaleAfterReturn ==
    /\ mcb.reload
    /\ mres.op = "manifest"
    /\ mres.after = "written"
    /\ mres.was_missing
    /\ mres.manifest # parse_manifest(mfile[1].content)

----------------------------------------------------------------------------
(* StaticURLInfo: C16 (SpecBust) *)

\* the registered cache busters, explicit or not, whose spec is a prefix of
\* this string
Matching(explicit, str) ==
    {i \in DOMAIN cache_busters :
        /\ cache_busters[i].explicit = explicit
        /\ startswith(str, cache_busters[i].spec)}

\* the cache buster called is the one of S with the longest spec
LongestOf(S) ==
    \E i \in S :
        /\ \A j \in S \ {i} : Len(cache_busters[j].spec) < Len(cache_busters[i].spec)
        /\ bust.applied = <<cache_busters[i].cachebust>>
        /\ bust.subpath = <<bust.subpath_in, cache_busters[i].cachebust>>

\* C16: _bust_asset_path calls at most one cache buster: the explicit one
\* with the longest spec that is a prefix of rawspec when an explicit one
\* matches, otherwise the non-explicit one with the longest spec that is a
\* prefix of pathspec, and none, the subpath coming back unchanged, when no
\* registered spec matches.
C16_OneCacheBuster ==
    bust.op = "_bust_asset_path"
        => LET E == Matching(TRUE, bust.rawspec)
               N == Matching(FALSE, bust.pathspec)
           IN /\ Len(bust.applied) <= 1
              /\ E # {} => LongestOf(E)
              /\ (E = {} /\ N # {}) => LongestOf(N)
              /\ (E = {} /\ N = {})
                    => bust.applied = <<>> /\ bust.subpath = <<bust.subpath_in>>

\* C16's case: two explicit cache busters match rawspec, the one registered
\* first has the longer spec and is the one called, and a non-explicit cache
\* buster matching pathspec is passed over
C16_Witness ==
    /\ bust.op = "_bust_asset_path"
    /\ Cardinality(Matching(TRUE, bust.rawspec)) = 2
    /\ Matching(FALSE, bust.pathspec) # {}
    /\ bust.rawspec # bust.pathspec
    /\ bust.applied = <<1>>

----------------------------------------------------------------------------
(* add_view: C17 (SpecAddView) *)

\* the views the adapters of a triad hold, single or inside a MultiView
ViewsOf(r) ==
    {v.id : v \in SeqToSet(r.IView) \cup SeqToSet(r.ISecuredView)}
    \cup UNION {{e.view.id : e \in AllEntries(m)} : m \in SeqToSet(r.IMultiView)}

\* the classifiers under which the last add_view call registered a view it
\* derived, for the context of the call
RegisteredUnder ==
    {c \in Classifiers :
        \E id \in {2 * av.n - 1, 2 * av.n} :
            id \in ViewsOf(adapters[<<c, r_context_of(av.context)>>])}

\* the exception types among the contexts
ExceptionTypes == {"KeyError", "IMyException"}

\* C17: add_view registers the derived view under the normal view classifier
\* exactly when exception_only is False, and under the exception view
\* classifier exactly when the context is an exception type; with
\* exception_only=True and a context that is no exception type it raises
\* ConfigurationError and the registry is left as it was. A call never
\* touches the triads of another context.
C17_Classifiers ==
    av.op = "add_view"
        => /\ (av.exception_only /\ av.context \notin ExceptionTypes)
                 <=> av.raised = "ConfigurationError"
           /\ av.raised # "" => adapters = av.before
           /\ av.raised = ""
                 => /\ "IViewClassifier" \in RegisteredUnder <=> ~av.exception_only
                    /\ "IExceptionViewClassifier" \in RegisteredUnder
                          <=> av.context \in ExceptionTypes
                    /\ \A t \in Triads :
                          (t[2] # r_context_of(av.context) \/ t[1] \notin RegisteredUnder)
                              => adapters[t] = av.before[t]

\* C17's case: a second call with exception_only=True for an exception class
\* that already has a normal and an exception view adds to the exception
\* classifier only
C17_Witness ==
    /\ av.op = "add_view" /\ av.n = 2
    /\ av.exception_only /\ av.context = "KeyError"
    /\ av.before[<<"IViewClassifier", "KeyError">>] # NoAdapters
    /\ adapters[<<"IViewClassifier", "KeyError">>]
          = av.before[<<"IViewClassifier", "KeyError">>]
    /\ adapters[<<"IExceptionViewClassifier", "KeyError">>].IMultiView # <<>>

----------------------------------------------------------------------------
(* View derivers: C18 - C20 (SpecDerivers) *)

\* a comes before b in this sequence
Before(seq, a, b) ==
    \E i, j \in DOMAIN seq : i < j /\ seq[i] = a /\ seq[j] = b

\* the names the sorter holds, and those of them that are not default ones
Registered_derivers == SeqToSet(derivers.names)
Registered_custom == Registered_derivers \cap CustomDerivers

\* C18: whenever sorted() gives an order, every deriver that was added
\* without under and without over comes after decorated_view and before
\* rendered_view in it (from ingress to view); and sorted() does give an
\* order when the default derivers are there and every other deriver was
\* added that way.
C18_BetweenDecoratedAndRendered ==
    dv.op = "sorted"
        => /\ dv.raised = ""
                 => \A name \in dcfg.plain :
                       /\ Before(dv.order, "decorated_view", name)
                       /\ Before(dv.order, name, "rendered_view")
           /\ (dcfg.defaults /\ Registered_custom \subseteq dcfg.plain)
                 => dv.raised = ""

\* C18's case: two derivers added without under and over, both sorted
\* between decorated_view and rendered_view
C18_Witness ==
    /\ dv.op = "sorted" /\ dv.raised = ""
    /\ dcfg.plain = {"d1", "d2"}
    /\ Before(dv.order, "decorated_view", "d1")
    /\ Before(dv.order, "d2", "rendered_view")

\* the order C19 gives, from ingress to view
DefaultOrder ==
    <<"secured_view", "csrf_view", "owrapped_view", "http_cached_view",
      "decorated_view", "rendered_view", "mapped_view">>

\* every arrangement of a set of names in a sequence
RECURSIVE PermSeqs(_)
PermSeqs(S) ==
    IF S = {} THEN {<<>>}
    ELSE UNION {{<<x>> \o p : p \in PermSeqs(S \ {x})} : x \in S}

\* p puts a before b for every registered constraint (a before b); INGRESS
\* is before and VIEW after everything
Respects(p) ==
    \A i \in DOMAIN derivers.order :
        LET a == derivers.order[i][1]
            b == derivers.order[i][2]
        IN a = INGRESS \/ b = VIEW \/ Before(p, a, b)

\* C19: after add_default_view_derivers, sorted() gives secured_view,
\* csrf_view, owrapped_view, http_cached_view, decorated_view,
\* rendered_view, mapped_view, and no other arrangement of the seven names
\* satisfies the registered constraints; with other derivers added, the
\* default ones keep that order among themselves.
C19_DefaultOrder ==
    (dv.op = "sorted" /\ dcfg.defaults)
        => /\ Registered_custom = {}
                 => /\ dv.raised = ""
                    /\ dv.order = DefaultOrder
                    /\ \A p \in PermSeqs(Registered_derivers) :
                          Respects(p) => p = DefaultOrder
           /\ dv.raised = ""
                 => Filter(dv.order, SeqToSet(DefaultOrder)) = DefaultOrder

\* C19's case: the default derivers alone, sorted
C19_Witness ==
    /\ dv.op = "sorted" /\ dcfg.defaults /\ dcfg.n = 0
    /\ dv.order = DefaultOrder

\* C20: the view _apply_view_derivers returns is the original view wrapped
\* by every registered deriver once, the last-sorted innermost and the
\* first-sorted outermost, then by predicated_view and, outermost, by
\* attr_wrapped_view: no registered deriver is outside these two.
C20_OuterDerivers ==
    (dv.op = "apply" /\ dv.raised = "")
        => LET sorted == sorter_sorted(derivers).result
               n == Len(dv.view)
           IN /\ n = Len(derivers.names) + 3
              /\ dv.view[1] = "attr_wrapped_view"
              /\ dv.view[2] = "predicated_view"
              /\ SubSeq(dv.view, 3, n - 1) = sorted
              /\ SeqToSet(sorted) = Registered_derivers
              /\ dv.view[n] = OriginalView

\* C20's case: the default derivers and one more, which was put right after
\* INGRESS and is the outermost registered deriver, inside predicated_view
C20_Witness ==
    /\ dv.op = "apply" /\ dv.raised = ""
    /\ dcfg.defaults
    /\ Len(dv.view) = 11
    /\ dv.view[3] = "d1"

====
